---- MODULE Spec2Model ----
(***************************************************************************)
(* Model of the toolkit package (src/tools.go): the upload pipeline        *)
(* (UploadFile, UploadFiles, processUploadedFile) over a small file        *)
(* system, with the library calls it makes (ParseMultipartForm, Open,      *)
(* ReadAll, Seek, DetectContentType, os.Create, io.Copy, Close) modelled   *)
(* by their documented behaviour; and, each under a specification of its   *)
(* own, ReadJSON, WriteJSON, DownloadStaticFile, Slugify and               *)
(* CreateDirIfNotExist.                                                    *)
(*                                                                         *)
(* Strings are sequences of one-character strings, so that extensions,     *)
(* path joins and name comparisons are computed and not assumed.           *)
(***************************************************************************)
EXTENDS Integers, Sequences, FiniteSets, TLC

(***************************************************************************)
(* Bounds of the model.                                                    *)
(***************************************************************************)
\* Upload calls each caller makes before it stops.
MaxCalls == 1
\* Bytes io.Copy moves per Write call (32 KiB in the library, scaled down so
\* that a three-byte file takes more than one write).
ChunkSize == 2

(***************************************************************************)
(* Program constants.                                                      *)
(***************************************************************************)
\* tools.go:58 and :90, "1024 * 1024 * 10 // 10 MB default"
DefaultMaxFileSize == 1024 * 1024 * 10
\* tools.go:145, t.RandomString(25)
RandomNameLen == 25
\* tools.go:17, the 64 characters RandomString indexes into
randomStringSource ==
    << "a","b","c","d","e","f","g","h","i","j","k","l","m",
       "n","o","p","q","r","s","t","u","v","w","x","y","z",
       "A","B","C","D","E","F","G","H","I","J","K","L","M",
       "N","O","P","Q","R","S","T","U","V","W","X","Y","Z",
       "0","1","2","3","4","5","6","7","8","9","_","+" >>

(***************************************************************************)
(* Strings and paths.                                                      *)
(***************************************************************************)
Sep == "/"
Dot == "."

Rep(c, n) == [i \in 1..n |-> c]

\* path/filepath.Ext: the suffix starting at the last dot of the last path
\* element; empty when that element has no dot.
RECURSIVE ExtFrom(_, _)
ExtFrom(path, i) ==
    IF i < 1 \/ path[i] = Sep THEN << >>
    ELSE IF path[i] = Dot THEN SubSeq(path, i, Len(path))
    ELSE ExtFrom(path, i - 1)

Ext(path) == ExtFrom(path, Len(path))

\* The elements of a path between separators, empty elements included.
RECURSIVE SplitFrom(_, _, _)
SplitFrom(path, i, cur) ==
    IF i > Len(path) THEN << cur >>
    ELSE IF path[i] = Sep THEN << cur >> \o SplitFrom(path, i + 1, << >>)
    ELSE SplitFrom(path, i + 1, Append(cur, path[i]))

Split(path) == SplitFrom(path, 1, << >>)

DotDot == << Dot, Dot >>

\* path/filepath.Clean, the element stack: "." and empty elements vanish, ".."
\* removes the element before it, is dropped at the root of a rooted path and
\* is kept at the start of a relative one.
RECURSIVE CleanStack(_, _, _, _)
CleanStack(elems, i, stack, rooted) ==
    IF i > Len(elems) THEN stack
    ELSE LET e == elems[i] IN
         IF e = << >> \/ e = << Dot >> THEN CleanStack(elems, i + 1, stack, rooted)
         ELSE IF e = DotDot THEN
              IF Len(stack) > 0 /\ stack[Len(stack)] # DotDot
                  THEN CleanStack(elems, i + 1, SubSeq(stack, 1, Len(stack) - 1), rooted)
              ELSE IF rooted THEN CleanStack(elems, i + 1, stack, rooted)
              ELSE CleanStack(elems, i + 1, Append(stack, e), rooted)
         ELSE CleanStack(elems, i + 1, Append(stack, e), rooted)

RECURSIVE JoinElems(_, _)
JoinElems(stack, i) ==
    IF i > Len(stack) THEN << >>
    ELSE IF i = Len(stack) THEN stack[i]
    ELSE stack[i] \o << Sep >> \o JoinElems(stack, i + 1)

Clean(path) ==
    LET rooted == Len(path) > 0 /\ path[1] = Sep
        stack  == CleanStack(Split(path), 1, << >>, rooted)
    IN  IF rooted THEN << Sep >> \o JoinElems(stack, 1)
        ELSE IF stack = << >> THEN << Dot >>
        ELSE JoinElems(stack, 1)

\* path/filepath.Join of two elements: empty elements are ignored, the rest
\* are joined by the separator and the result is cleaned.
Join(dir, name) ==
    IF dir = << >> /\ name = << >> THEN << >>
    ELSE IF dir = << >> THEN Clean(name)
    ELSE IF name = << >> THEN Clean(dir)
    ELSE Clean(dir \o << Sep >> \o name)

(***************************************************************************)
(* Content types.                                                          *)
(***************************************************************************)
ImagePng  == "image/png"
ImageJpeg == "image/jpeg"
TextPlain == "text/plain; charset=utf-8"

\* strings.ToLower on the type strings the model uses.
Lower(s) ==
    CASE s = "IMAGE/PNG"  -> "image/png"
      [] s = "Image/Jpeg" -> "image/jpeg"
      [] OTHER            -> s

\* strings.EqualFold: equality under case folding.
EqualFold(a, b) == Lower(a) = Lower(b)

\* http.DetectContentType on the file's bytes: the signature byte "P" stands
\* for the PNG magic number, "J" for the JPEG one; anything else, the empty
\* file included, is sniffed as plain text.
DetectContentType(fileBytes) ==
    IF fileBytes = << >> THEN TextPlain
    ELSE IF fileBytes[1] = "P" THEN ImagePng
    ELSE IF fileBytes[1] = "J" THEN ImageJpeg
    ELSE TextPlain

\* A loop that returns true at its first entry, whatever the entry is.
isAllowedTypeAnyEntry(allowedTypes, fileType) == Len(allowedTypes) > 0

\* Tools.isAllowedType: some entry of the allow-list equals the type under
\* case folding.
isAllowedType(allowedTypes, fileType) ==
    \E i \in 1..Len(allowedTypes) : EqualFold(fileType, allowedTypes[i])

(***************************************************************************)
(* RandomString.                                                           *)
(***************************************************************************)
\* The values x % y of RandomString (tools.go:33-36): p is a prime of
\* len(r) = 64 bits, hence odd, and y = 64; every odd residue is the residue
\* of some 64-bit prime.  p is represented by its residue, since p itself
\* does not fit the model checker's integers.
PrimeResidues == { x \in 0..(Len(randomStringSource) - 1) : x % 2 = 1 }

\* The outputs of RandomString(n): n characters, each r[x % y].
RandomString(n) ==
    [1..n -> { randomStringSource[x + 1] : x \in PrimeResidues }]

\* The generator outputs the model draws from: a string of 25 equal
\* characters for each of these characters that the generator can produce.
SampleChars == { "a", "b", "d" }
SampleNames == { Rep(c, RandomNameLen) : c \in SampleChars } \cap RandomString(RandomNameLen)

(***************************************************************************)
(* Requests.                                                               *)
(***************************************************************************)
PNG3 == << "P", "n", "g" >>
JPG1 == << "J" >>
TXT2 == << "h", "i" >>

NameAT  == << "a", Dot, "t" >>
NameGen == Rep("b", RandomNameLen) \o << Dot, "t" >>
NameN   == << "n" >>
NameUp  == << Dot, Dot, Sep, "n" >>

\* multipart.FileHeader: the declared file name and the part's content.
\* The library reduces the name a client declares to its last element from
\* Go 1.17 on (a name like "../n" arrives as "n", H5); the package also
\* builds with Go 1.16, and ParseMultipartForm leaves a form that the caller
\* has already filled in as it is, so that a name can arrive as declared
\* (H7).
Hdr(name, data) == [Filename |-> name, data |-> data]

H1 == Hdr(NameAT, PNG3)
H2 == Hdr(NameAT, TXT2)
H3 == Hdr(NameGen, JPG1)
H4 == Hdr(DotDot, TXT2)
H5 == Hdr(NameN, << >>)
H7 == Hdr(NameUp, << >>)

\* r.MultipartForm.File: field name -> file headers.  A field is absent
\* (no list) or holds one list, which a hand-built form can leave empty.
Absent == << >>
Present(list) == << list >>

FileLists  == { Absent, Present(<< >>), Present(<< H1, H2 >>), Present(<< H3 >>),
                Present(<< H5 >>), Present(<< H7 >>) }
OtherLists == { Absent, Present(<< H4 >>) }

Form(file, other) ==
    [f \in (IF file = Absent THEN {} ELSE {"file"})
           \cup (IF other = Absent THEN {} ELSE {"other"})
       |-> IF f = "file" THEN file[1] ELSE other[1]]

Forms == { Form(f, o) : f \in FileLists, o \in OtherLists }

RECURSIVE SumLen(_)
SumLen(hdrs) ==
    IF hdrs = << >> THEN 0 ELSE Len(Head(hdrs).data) + SumLen(Tail(hdrs))

\* Bytes of file content in the form.
FormLen(form) ==
    (IF "file" \in DOMAIN form THEN SumLen(form["file"]) ELSE 0)
  + (IF "other" \in DOMAIN form THEN SumLen(form["other"]) ELSE 0)

\* The request: its form, the bytes of preamble before the first part (the
\* multipart reader skips them), and the limit of the http.MaxBytesReader
\* the caller wrapped the body in, if any (tools_test.go:88).
Unlimited  == [on |-> FALSE, n |-> 0]
Limited(n) == [on |-> TRUE, n |-> n]
Transports == { [pad |-> 0, limit |-> Unlimited],
                [pad |-> 0, limit |-> Limited(4)],
                [pad |-> DefaultMaxFileSize, limit |-> Unlimited],
                [pad |-> DefaultMaxFileSize, limit |-> Limited(DefaultMaxFileSize)] }

BodyLen(req) == req.pad + FormLen(req.form)

\* The variadic rename argument: omitted, true or false.
Renames == { << >>, << TRUE >>, << FALSE >> }

\* Tools values callers configure.
MaxFileSizes == { 0, 4 }
AllowLists   == { << >>, << "IMAGE/PNG" >>, << "image/jpeg", "text/plain" >> }

UploadDir == << "u" >>
\* Directories that exist: the upload directory and its parent.
Dirs == { UploadDir, << Dot >> }

(***************************************************************************)
(* Library calls.                                                          *)
(***************************************************************************)
NoErr           == ""
ErrBodyTooLarge == "http: request body too large"
ErrNoFile       == "no file uploaded"
ErrOpen         == "open: i/o error"
ErrRead         == "read: i/o error"
ErrSeek         == "seek: i/o error"
ErrCreate       == "create: i/o error"
ErrCopy         == "write: i/o error"
ErrTypeNotAllowed(fileType) == "file type " \o fileType \o " not allowed"

\* (*http.Request).ParseMultipartForm(maxMemory): the whole body is read.
\* maxMemory bounds what is kept in memory, the rest of the file parts goes
\* to temporary files: it does not bound the body.  Reading fails only when
\* the body is wrapped in a MaxBytesReader and is longer than its limit.
ParseMultipartForm(req, maxMemory) ==
    IF req.limit.on /\ BodyLen(req) > req.limit.n THEN ErrBodyTooLarge ELSE NoErr

\* The byte a hole of a file reads as.
Zero == "0"

Max(a, b) == IF a > b THEN a ELSE b
Min(a, b) == IF a < b THEN a ELSE b

\* (*os.File).Write at the handle's offset: the bytes replace what is there,
\* the file grows as needed, a gap before the offset reads as zeros.
WriteAt(content, pos, bytes) ==
    [i \in 1..Max(Len(content), pos + Len(bytes)) |->
        IF i > pos /\ i <= pos + Len(bytes) THEN bytes[i - pos]
        ELSE IF i <= Len(content) THEN content[i]
        ELSE Zero]

\* path/filepath.Dir of a cleaned path.
RECURSIVE LastSep(_, _)
LastSep(path, i) ==
    IF i < 1 THEN 0 ELSE IF path[i] = Sep THEN i ELSE LastSep(path, i - 1)

Dir(path) ==
    LET i == LastSep(path, Len(path))
    IN  IF i = 0 THEN << Dot >> ELSE Clean(SubSeq(path, 1, i))

\* os.Create can succeed on a path only if it is no directory and its parent
\* directory exists.
Creatable(path) == path \notin Dirs /\ Dir(path) \in Dirs

\* The orders in which a range over the form's map can visit its fields.
Orders(form) ==
    { o \in UNION { [1..n -> DOMAIN form] : n \in {Cardinality(DOMAIN form)} } :
        \A i, j \in DOMAIN o : i # j => o[i] # o[j] }

RECURSIVE Flatten(_, _, _)
Flatten(form, order, i) ==
    IF i > Len(order) THEN << >>
    ELSE form[order[i]] \o Flatten(form, order, i + 1)

(***************************************************************************)
(* State.                                                                  *)
(***************************************************************************)
VARIABLES
    t,              \* the Tools value: MaxFileSize, AllowedTypes
    fs,             \* the files on disk: path -> content
    pc,             \* where each caller is
    ncalls,         \* calls each caller has made
    call,           \* the running call's arguments, and t and fs when it began
    queue,          \* file headers the call has still to process
    infile,         \* the source handle of processUploadedFile
    outfile,        \* the destination handle of processUploadedFile
    uploadedFile,   \* the record processUploadedFile fills in
    uploadedFiles,  \* the records UploadFiles has collected
    events,         \* what each processUploadedFile of the call did
    ret,            \* what the call returned
    raced           \* paths created while another caller had them open

\* The state of the other operations of the package.  Each is exercised by
\* a specification of its own; the upload specifications leave it idle.
VARIABLES
    cfg,            \* the Tools value: MaxJSONSize, AllowUnknownFields
    jreq,           \* ReadJSON: the request body and the decode target
    jret,           \* ReadJSON: what it returned, and what the decoder did
    wreq,           \* WriteJSON: its arguments
    w,              \* WriteJSON: the http.ResponseWriter
    wret,           \* WriteJSON: what it returned
    disk,           \* DownloadStaticFile: the files it is asked for
    dreq,           \* DownloadStaticFile: its arguments and the request
    dresp,          \* DownloadStaticFile: the response it wrote
    slugIn,         \* Slugify: its argument
    slugOut,        \* Slugify: what it returned
    tree,           \* CreateDirIfNotExist: what is at each path
    mkreq,          \* CreateDirIfNotExist: its argument and the system's answers
    mkret,          \* CreateDirIfNotExist: what each call returned
    rn,             \* RandomString: its argument n
    rout            \* RandomString: the characters it has drawn so far

jsonVars == << cfg, jreq, jret >>
writeVars == << wreq, w, wret >>
downloadVars == << disk, dreq, dresp >>
slugVars == << slugIn, slugOut >>
dirVars == << tree, mkreq, mkret >>
randVars == << rn, rout >>
uploadVars == << t, fs, pc, ncalls, call, queue, infile, outfile, uploadedFile,
                 uploadedFiles, events, ret, raced >>
others == << jsonVars, writeVars, downloadVars, slugVars, dirVars, randVars >>

vars == << uploadVars, others >>

\* An operation nobody calls.
JSONIdle == cfg = << >> /\ jreq = << >> /\ jret = << >>
WriteIdle == wreq = << >> /\ w = << >> /\ wret = << >>
DownloadIdle == disk = << >> /\ dreq = << >> /\ dresp = << >>
SlugIdle == slugIn = << >> /\ slugOut = << >>
DirIdle == tree = << >> /\ mkreq = << >> /\ mkret = << >>
RandIdle == rn = << >> /\ rout = << >>

Procs == DOMAIN pc

Closed == [open |-> FALSE, pos |-> 0, path |-> << >>]
EmptyRecord == [NewFileName |-> << >>, OriginalFileName |-> << >>, FileSize |-> 0]
NoCall == [op |-> "none", req |-> [form |-> Form(Absent, Absent), pad |-> 0,
                                   limit |-> Unlimited],
           rename |-> << >>, t0 |-> [MaxFileSize |-> 0, AllowedTypes |-> << >>],
           fs0 |-> << >>]
NoRet == [kind |-> "none", recs |-> << >>, err |-> NoErr]

\* Files a caller finds on disk before the first call.
InitialFs == { [q \in { Join(UploadDir, NameAT) } |-> << "o", "l", "d", "!" >>] }

InitFor(procs) ==
    /\ t \in [MaxFileSize : MaxFileSizes, AllowedTypes : AllowLists]
    /\ fs \in InitialFs
    /\ pc = [p \in procs |-> "idle"]
    /\ ncalls = [p \in procs |-> 0]
    /\ call = [p \in procs |-> NoCall]
    /\ queue = [p \in procs |-> << >>]
    /\ infile = [p \in procs |-> Closed]
    /\ outfile = [p \in procs |-> Closed]
    /\ uploadedFile = [p \in procs |-> EmptyRecord]
    /\ uploadedFiles = [p \in procs |-> << >>]
    /\ events = [p \in procs |-> << >>]
    /\ ret = [p \in procs |-> NoRet]
    /\ raced = {}
    /\ JSONIdle /\ WriteIdle /\ DownloadIdle /\ SlugIdle /\ DirIdle /\ RandIdle

\* One caller at a time.
Init == InitFor({1})

\* Two callers, each in its own goroutine, on the same Tools value and the
\* same upload directory.
InitConc == InitFor({1, 2})

\* A lone caller makes up to MaxCalls calls, one after the other; each of
\* two concurrent callers makes one.
CallLimit(procs) == IF Cardinality(procs) = 1 THEN MaxCalls ELSE 1

\* The calls a caller makes.  A lone caller draws from every request; two
\* concurrent callers upload one file each under the same client file name,
\* with contents of different lengths.
H6 == Hdr(NameAT, JPG1)

Calls(procs) ==
    IF Cardinality(procs) = 1
        THEN [op : {"UploadFile", "UploadFiles"}, form : Forms, tr : Transports,
              rename : Renames]
        ELSE [op : {"UploadFile"},
              form : { Form(Present(<< H1 >>), Absent), Form(Present(<< H2 >>), Absent),
                       Form(Present(<< H6 >>), Absent) },
              tr : { [pad |-> 0, limit |-> Unlimited] },
              rename : { << >>, << FALSE >> }]

(***************************************************************************)
(* UploadFile, UploadFiles and processUploadedFile.                        *)
(***************************************************************************)
\* tools.go:50-53 and 82-85: the rename flag defaults to true.
renameFlag(rename) == IF Len(rename) > 0 THEN rename[1] ELSE TRUE

\* tools.go:57-59 and 89-91: a zero MaxFileSize is replaced, in the Tools
\* value itself, by the default.
setDefaultMaxFileSize(tools) ==
    IF tools.MaxFileSize = 0
        THEN [tools EXCEPT !.MaxFileSize = DefaultMaxFileSize]
        ELSE tools

\* A lookup that falls back to the first file of any field.
firstFileAnyField(form) ==
    IF "file" \in DOMAIN form /\ Len(form["file"]) > 0
        THEN << form["file"][1] >>
    ELSE IF \E f \in DOMAIN form : Len(form[f]) > 0
        THEN << form[CHOOSE f \in DOMAIN form : Len(form[f]) > 0][1] >>
    ELSE << >>

\* tools.go:98-100: the first file under the field "file", if there is one.
firstFile(form) ==
    IF "file" \in DOMAIN form /\ Len(form["file"]) > 0
        THEN << form["file"][1] >>
        ELSE << >>

\* A generated name that loses the extension.
newFileNameNoExt(hdr, renameFile, generated) ==
    IF renameFile THEN generated ELSE hdr.Filename

\* tools.go:144-150: the destination name.
newFileName(hdr, renameFile, generated) ==
    IF renameFile THEN generated \o Ext(hdr.Filename) ELSE hdr.Filename

\* A Seek that is left out: the read position stays where ReadAll left it.
seekStartMissing(handle) == handle

\* tools.go:130: infile.Seek(0, 0) puts the read position back at the start.
seekStart(handle) == [handle EXCEPT !.pos = 0]

\* A handle whose Close is not deferred stays open.
deferredCloseMissing(handle) == handle

\* tools.go:121 and 155: the deferred Close of a handle.
deferredClose(handle) == Closed

\* What a call hands back: a record, a list of records or nil, and the error.
RetNil(err)      == [kind |-> "nil", recs |-> << >>, err |-> err]
RetRecord(rec)   == [kind |-> "record", recs |-> << rec >>, err |-> NoErr]
RetList(recs)    == IF recs = << >> THEN RetNil(NoErr)
                    ELSE [kind |-> "list", recs |-> recs, err |-> NoErr]

\* An UploadFile that hands back its record variable next to the error.
uploadFileResultPartial(recs, err) ==
    IF err # NoErr THEN [kind |-> "record", recs |-> << EmptyRecord >>, err |-> err]
    ELSE IF recs = << >> THEN RetNil(ErrNoFile)
    ELSE RetRecord(recs[1])

\* tools.go:101-113: UploadFile hands back what processUploadedFile returned.
uploadFileResult(recs, err) ==
    IF err # NoErr THEN RetNil(err)
    ELSE IF recs = << >> THEN RetNil(ErrNoFile)
    ELSE RetRecord(recs[1])

\* A loop that skips a failed file and goes on.
stopOnErrorNever(err) == FALSE

\* tools.go:69-71: UploadFiles returns at the first error.
stopOnError(err) == err # NoErr

\* An open that keeps what the file held (no O_TRUNC).
createFileKeep(files, path) ==
    [q \in DOMAIN files \cup {path} |-> IF q \in DOMAIN files THEN files[q] ELSE << >>]

\* tools.go:146 and 149: os.Create makes the file, or truncates the one
\* that is there.
createFile(files, path) ==
    [q \in DOMAIN files \cup {path} |-> IF q = path THEN << >> ELSE files[q]]

Event(hdr, path, exit, opened) ==
    [hdr |-> hdr, path |-> path, exit |-> exit, opened |-> opened]

\* A caller starts UploadFile or UploadFiles on a request.
Begin(p) ==
    /\ pc[p] \in {"idle", "done"}
    /\ ncalls[p] < CallLimit(Procs)
    /\ \E c \in Calls(Procs) :
          call' = [call EXCEPT ![p] =
                      [op |-> c.op,
                       req |-> [form |-> c.form, pad |-> c.tr.pad, limit |-> c.tr.limit],
                       rename |-> c.rename, t0 |-> t, fs0 |-> fs]]
    /\ pc' = [pc EXCEPT ![p] = "parse"]
    /\ ncalls' = [ncalls EXCEPT ![p] = @ + 1]
    /\ queue' = [queue EXCEPT ![p] = << >>]
    /\ uploadedFile' = [uploadedFile EXCEPT ![p] = EmptyRecord]
    /\ uploadedFiles' = [uploadedFiles EXCEPT ![p] = << >>]
    /\ events' = [events EXCEPT ![p] = << >>]
    /\ ret' = [ret EXCEPT ![p] = NoRet]
    /\ UNCHANGED << t, fs, infile, outfile, raced >>
    /\ UNCHANGED others

\* tools.go:57-64 (UploadFiles) and 89-113 (UploadFile) up to the first
\* call of processUploadedFile: default the limit, parse the form, find the
\* files to process.
Parse(p) ==
    /\ pc[p] = "parse"
    /\ t' = setDefaultMaxFileSize(t)
    /\ LET req == call[p].req
           err == ParseMultipartForm(req, t'.MaxFileSize)
       IN  IF err # NoErr
               THEN /\ ret' = [ret EXCEPT ![p] = RetNil(err)]
                    /\ pc' = [pc EXCEPT ![p] = "done"]
                    /\ UNCHANGED queue
           ELSE IF call[p].op = "UploadFile"
               THEN LET sel == firstFile(req.form)
                    IN  IF sel = << >>
                            THEN /\ ret' = [ret EXCEPT ![p] = uploadFileResult(<< >>, NoErr)]
                                 /\ pc' = [pc EXCEPT ![p] = "done"]
                                 /\ UNCHANGED queue
                            ELSE /\ queue' = [queue EXCEPT ![p] = sel]
                                 /\ pc' = [pc EXCEPT ![p] = "open"]
                                 /\ UNCHANGED ret
           ELSE \E order \in Orders(req.form) :
                    LET hdrs == Flatten(req.form, order, 1)
                    IN  IF hdrs = << >>
                            THEN /\ ret' = [ret EXCEPT ![p] = RetList(<< >>)]
                                 /\ pc' = [pc EXCEPT ![p] = "done"]
                                 /\ UNCHANGED queue
                            ELSE /\ queue' = [queue EXCEPT ![p] = hdrs]
                                 /\ pc' = [pc EXCEPT ![p] = "open"]
                                 /\ UNCHANGED ret
    /\ UNCHANGED << fs, ncalls, call, infile, outfile, uploadedFile,
                    uploadedFiles, events, raced >>
    /\ UNCHANGED others

\* processUploadedFile returns (recs, err) to its caller: the deferred
\* Closes run, then UploadFile returns (tools.go:101-113) or UploadFiles
\* stops at an error or appends the record and goes on with the next header
\* (tools.go:66-76).
Return(p, recs, err, exit) ==
    /\ events' = [events EXCEPT ![p] =
                    Append(@, Event(Head(queue[p]), outfile[p].path, exit,
                                    (IF infile[p].open THEN 1 ELSE 0)
                                  + (IF outfile[p].open THEN 1 ELSE 0)))]
    /\ infile' = [infile EXCEPT ![p] = deferredClose(@)]
    /\ outfile' = [outfile EXCEPT ![p] = deferredClose(@)]
    /\ uploadedFile' = [uploadedFile EXCEPT ![p] = EmptyRecord]
    /\ IF call[p].op = "UploadFile"
           THEN /\ ret' = [ret EXCEPT ![p] = uploadFileResult(recs, err)]
                /\ pc' = [pc EXCEPT ![p] = "done"]
                /\ queue' = [queue EXCEPT ![p] = << >>]
                /\ UNCHANGED uploadedFiles
       ELSE IF stopOnError(err)
           THEN /\ ret' = [ret EXCEPT ![p] = RetNil(err)]
                /\ pc' = [pc EXCEPT ![p] = "done"]
                /\ UNCHANGED << queue, uploadedFiles >>
       ELSE LET collected == uploadedFiles[p] \o recs
            IN  /\ uploadedFiles' = [uploadedFiles EXCEPT ![p] = collected]
                /\ queue' = [queue EXCEPT ![p] = Tail(@)]
                /\ IF Len(queue[p]) = 1
                       THEN /\ ret' = [ret EXCEPT ![p] = RetList(collected)]
                            /\ pc' = [pc EXCEPT ![p] = "done"]
                       ELSE /\ pc' = [pc EXCEPT ![p] = "open"]
                            /\ UNCHANGED ret

\* tools.go:117-121: hdr.Open().
Open(p) ==
    /\ pc[p] = "open"
    /\ \E ok \in BOOLEAN :
          IF ok
              THEN /\ infile' = [infile EXCEPT ![p] = [open |-> TRUE, pos |-> 0, path |-> << >>]]
                   /\ pc' = [pc EXCEPT ![p] = "sniff"]
                   /\ UNCHANGED << queue, outfile, uploadedFile, uploadedFiles, events, ret >>
              ELSE Return(p, << >>, ErrOpen, "open")
    /\ UNCHANGED << t, fs, ncalls, call, raced >>
    /\ UNCHANGED others

\* tools.go:123-139: with an allow-list, read the whole file, seek back to
\* its start, sniff the type of the bytes read and reject a type that is
\* not allowed.
Sniff(p) ==
    /\ pc[p] = "sniff"
    /\ IF Len(t.AllowedTypes) > 0
           THEN \E io \in {"ok", "read", "seek"} :
                   LET hdr == Head(queue[p])
                       fileBytes == SubSeq(hdr.data, infile[p].pos + 1, Len(hdr.data))
                       fileType == DetectContentType(fileBytes)
                   IN  IF io = "read" THEN Return(p, << >>, ErrRead, "read")
                       ELSE IF io = "seek" THEN Return(p, << >>, ErrSeek, "seek")
                       ELSE IF ~isAllowedType(t.AllowedTypes, fileType)
                           THEN Return(p, << >>, ErrTypeNotAllowed(fileType), "type")
                       ELSE /\ infile' = [infile EXCEPT ![p] =
                                            seekStart([@ EXCEPT !.pos = Len(hdr.data)])]
                            /\ pc' = [pc EXCEPT ![p] = "create"]
                            /\ UNCHANGED << queue, outfile, uploadedFile,
                                            uploadedFiles, events, ret >>
           ELSE /\ pc' = [pc EXCEPT ![p] = "create"]
                /\ UNCHANGED << queue, infile, outfile, uploadedFile,
                                uploadedFiles, events, ret >>
    /\ UNCHANGED << t, fs, ncalls, call, raced >>
    /\ UNCHANGED others

\* tools.go:141-155: name the destination and os.Create it, which makes the
\* file or truncates the one that is there.
Create(p) ==
    /\ pc[p] = "create"
    /\ \E generated \in SampleNames, ok \in BOOLEAN :
          LET hdr  == Head(queue[p])
              name == newFileName(hdr, renameFlag(call[p].rename), generated)
              path == Join(UploadDir, name)
          IN  IF ok /\ Creatable(path)
                  THEN /\ fs' = createFile(fs, path)
                       /\ raced' = IF \E q \in Procs \ {p} :
                                         outfile[q].open /\ outfile[q].path = path
                                       THEN raced \cup {path} ELSE raced
                       /\ outfile' = [outfile EXCEPT ![p] = [open |-> TRUE, pos |-> 0, path |-> path]]
                       /\ uploadedFile' = [uploadedFile EXCEPT ![p] =
                              [NewFileName |-> name, OriginalFileName |-> hdr.Filename,
                               FileSize |-> 0]]
                       /\ pc' = [pc EXCEPT ![p] = "copy"]
                       /\ UNCHANGED << queue, infile, uploadedFiles, events, ret >>
                  ELSE /\ Return(p, << >>, ErrCreate, "create")
                       /\ UNCHANGED << fs, raced >>
    /\ UNCHANGED << t, ncalls, call >>
    /\ UNCHANGED others

\* tools.go:157-163: io.Copy moves the source from its read position to the
\* destination, one buffer at a time; when the source is exhausted the
\* bytes copied become the record's FileSize and the record is returned.
Copy(p) ==
    /\ pc[p] = "copy"
    /\ LET data  == Head(queue[p]).data
           n     == Min(ChunkSize, Len(data) - infile[p].pos)
           bytes == SubSeq(data, infile[p].pos + 1, infile[p].pos + n)
           path  == outfile[p].path
           written == outfile[p].pos + n
       IN  \E ok \in BOOLEAN :
             IF ~ok
                 THEN /\ Return(p, << >>, ErrCopy, "copy")
                      /\ UNCHANGED fs
             ELSE /\ fs' = IF n = 0 THEN fs
                           ELSE [fs EXCEPT ![path] = WriteAt(@, outfile[p].pos, bytes)]
                  /\ IF infile[p].pos + n = Len(data)
                         THEN Return(p, << [uploadedFile[p] EXCEPT !.FileSize = written] >>,
                                     NoErr, "ok")
                         ELSE /\ infile' = [infile EXCEPT ![p].pos = @ + n]
                              /\ outfile' = [outfile EXCEPT ![p].pos = written]
                              /\ UNCHANGED << pc, queue, uploadedFile, uploadedFiles,
                                              events, ret >>
    /\ UNCHANGED << t, ncalls, call, raced >>
    /\ UNCHANGED others

Next == \E p \in Procs : Begin(p) \/ Parse(p) \/ Open(p) \/ Sniff(p) \/ Create(p) \/ Copy(p)

Spec == Init /\ [][Next]_vars

SpecConc == InitConc /\ [][Next]_vars

(***************************************************************************)
(* Properties.                                                             *)
(***************************************************************************)
Done(p) == pc[p] = "done"

\* The limit a call works with: MaxFileSize as configured when the call
\* began, 10 MiB when that is 0.
ConfiguredLimit(p) ==
    IF call[p].t0.MaxFileSize = 0 THEN 10 * 1024 * 1024 ELSE call[p].t0.MaxFileSize

\* The body's reader let the whole body through.
BodyReadable(req) == ~(req.limit.on /\ BodyLen(req) > req.limit.n)

HasFileUnderFile(form) == "file" \in DOMAIN form /\ Len(form["file"]) >= 1

DestPath(rec) == Join(UploadDir, rec.NewFileName)

\* C1: a call on a request whose body is larger than the configured
\* MaxFileSize (10 MiB when MaxFileSize is 0) ends with the error "request
\* body too large", returns nothing and leaves the files on disk as they
\* were.
C1_OversizedBodyRejected ==
    \A p \in Procs :
        Done(p) /\ BodyLen(call[p].req) > ConfiguredLimit(p)
            => /\ ret[p] = RetNil(ErrBodyTooLarge)
               /\ fs = call[p].fs0

\* C2: when UploadFile returns a record, its FileSize is the byte length of
\* the first file under the field "file", and the file at
\* uploadDir/NewFileName exists and holds that many bytes (the submitted
\* content).
C2_FileSizeIsContentLength ==
    \A p \in Procs :
        Done(p) /\ call[p].op = "UploadFile" /\ ret[p].kind = "record"
            => LET rec  == ret[p].recs[1]
                   data == call[p].req.form["file"][1].data
               IN  /\ rec.FileSize = Len(data)
                   /\ DestPath(rec) \in DOMAIN fs
                   /\ Len(fs[DestPath(rec)]) = rec.FileSize
                   /\ fs[DestPath(rec)] = data

\* C2 witness: UploadFile returned the record of a three-byte file that went
\* through the type check (read in full, then rewound) before the copy.
C2_Witness ==
    \E p \in Procs :
        /\ Done(p) /\ call[p].op = "UploadFile" /\ ret[p].kind = "record"
        /\ Len(t.AllowedTypes) > 0
        /\ ret[p].recs[1].FileSize = 3

\* C3: UploadFile on a parsed form with no file under the field "file" (the
\* field absent or its list empty) returns nil with the error "no file
\* uploaded" and leaves the files on disk as they were, whatever other
\* fields hold.
C3_NoFileUploaded ==
    \A p \in Procs :
        /\ Done(p) /\ call[p].op = "UploadFile"
        /\ BodyReadable(call[p].req)
        /\ ~HasFileUnderFile(call[p].req.form)
        => /\ ret[p] = RetNil(ErrNoFile)
           /\ fs = call[p].fs0
           /\ events[p] = << >>

\* C3 witness: such a call has returned, on a form with a file under
\* another field.
C3_Witness ==
    \E p \in Procs :
        /\ Done(p) /\ call[p].op = "UploadFile"
        /\ ret[p].err = ErrNoFile
        /\ "other" \in DOMAIN call[p].req.form
        /\ Len(call[p].req.form["other"]) > 0

LastEvent(p) == events[p][Len(events[p])]

\* The type is on the allow-list, compared case-insensitively.
Listed(list, fileType) == \E i \in 1..Len(list) : Lower(list[i]) = Lower(fileType)

\* File i of the call is one the type check has to reject: there is an
\* allow-list, its sniffed type is not on it, and it was opened, read and
\* rewound without an I/O error.
Rejectable(p, i) ==
    /\ Len(t.AllowedTypes) > 0
    /\ ~Listed(t.AllowedTypes, DetectContentType(events[p][i].hdr.data))
    /\ events[p][i].exit \notin {"open", "read", "seek"}

\* Paths of the files the call created before its file i.
CreatedBefore(p, i) == { events[p][j].path : j \in 1..(i - 1) }

\* The paths whose file is new or holds something else than when the call
\* began.
Changed(p) ==
    { q \in DOMAIN fs : q \notin DOMAIN call[p].fs0 \/ fs[q] # call[p].fs0[q] }

\* C4 as stated: a call in which a file's sniffed type is not on the
\* allow-list fails with "file type <type> not allowed" and has written no
\* file at all.
C4_Original ==
    \A p \in Procs :
        \A i \in DOMAIN events[p] :
            Done(p) /\ Rejectable(p, i)
                => /\ ret[p] = RetNil(ErrTypeNotAllowed(
                                        DetectContentType(events[p][i].hdr.data)))
                   /\ fs = call[p].fs0

\* C4 amended: such a file is the last one the call processes; the call
\* fails with "file type <type> not allowed" naming the sniffed type and
\* returns nil; no destination is created for that file, and the only files
\* the call has changed are those of the files it processed before
\* (UploadFile, which processes one file, has changed none).
C4_TypeRejected ==
    \A p \in Procs :
        \A i \in DOMAIN events[p] :
            Done(p) /\ Rejectable(p, i)
                => /\ i = Len(events[p])
                   /\ ret[p] = RetNil(ErrTypeNotAllowed(
                                        DetectContentType(events[p][i].hdr.data)))
                   /\ events[p][i].path = << >>
                   /\ Changed(p) \subseteq CreatedBefore(p, i)
                   /\ DOMAIN call[p].fs0 \subseteq DOMAIN fs
                   /\ (call[p].op = "UploadFile" => fs = call[p].fs0)

\* C4 witness: UploadFiles wrote a file and then rejected the next one for
\* its type.
C4_Witness ==
    \E p \in Procs :
        /\ Done(p) /\ call[p].op = "UploadFiles"
        /\ Len(events[p]) >= 2
        /\ LastEvent(p).exit = "type"
        /\ fs # call[p].fs0

\* The call renames: the flag is omitted or true.
Renaming(p) == call[p].rename = << >> \/ call[p].rename[1]

Stem(name) == SubSeq(name, 1, Len(name) - Len(Ext(name)))

\* The new name is 25 generated characters followed by the extension of the
\* original name.
GeneratedForm(rec) ==
    /\ Len(rec.NewFileName) = 25 + Len(Ext(rec.OriginalFileName))
    /\ SubSeq(rec.NewFileName, 26, Len(rec.NewFileName)) = Ext(rec.OriginalFileName)

\* C5 as stated: without renaming the new name is the original one; with
\* renaming it is 25 generated characters and the original extension, and
\* it differs from the original name.
C5_Original ==
    \A p \in Procs :
        \A i \in DOMAIN ret[p].recs :
            Done(p) =>
                LET rec == ret[p].recs[i]
                IN  IF Renaming(p)
                        THEN GeneratedForm(rec) /\ rec.NewFileName # rec.OriginalFileName
                        ELSE rec.NewFileName = rec.OriginalFileName

\* C5 amended: as C5, but with renaming the new name differs from the
\* original one unless the original name is itself 25 characters the
\* generator can produce followed by its extension.
C5_RenamePolicy ==
    \A p \in Procs :
        \A i \in DOMAIN ret[p].recs :
            Done(p) =>
                LET rec == ret[p].recs[i]
                IN  /\ rec.OriginalFileName = events[p][i].hdr.Filename
                    /\ IF Renaming(p)
                           THEN /\ GeneratedForm(rec)
                                /\ Stem(rec.OriginalFileName) \notin RandomString(25)
                                      => rec.NewFileName # rec.OriginalFileName
                           ELSE rec.NewFileName = rec.OriginalFileName

\* C5 witness: a renaming call returned a record for a file with an
\* extension, under a new name that differs from the original one.
C5_Witness ==
    \E p \in Procs :
        /\ Done(p) /\ Renaming(p) /\ ret[p].kind = "record"
        /\ Ext(ret[p].recs[1].OriginalFileName) # << >>
        /\ ret[p].recs[1].NewFileName # ret[p].recs[1].OriginalFileName

\* C6: a call that ends with an error returns nil, never a record; every
\* record a call returns is that of a file whose copy ran to its end, whose
\* handles are closed and which exists at uploadDir/NewFileName when the
\* call returns.
C6_RecordsAreWritten ==
    \A p \in Procs :
        Done(p) =>
            /\ ret[p].err # NoErr => ret[p].kind = "nil" /\ ret[p].recs = << >>
            /\ ~infile[p].open /\ ~outfile[p].open
            /\ \A i \in DOMAIN ret[p].recs :
                   /\ DestPath(ret[p].recs[i]) \in DOMAIN fs
                   /\ events[p][i].exit = "ok"
                   /\ events[p][i].path = DestPath(ret[p].recs[i])

\* C6 witness: UploadFiles returned two records or more.
C6_Witness ==
    \E p \in Procs :
        Done(p) /\ ret[p].kind = "list" /\ Len(ret[p].recs) >= 2

\* The file headers of a form.
FileCount(form) == Len(Flatten(form, CHOOSE o \in Orders(form) : TRUE, 1))

\* C7: UploadFiles processes the headers in the order of one enumeration of
\* the form; it stops at the first file that fails, returns a nil list with
\* that failure's error, and the files it wrote before stay on disk; when
\* no file fails it returns one record per header, in that order.
C7_FailFast ==
    \A p \in Procs :
        Done(p) /\ call[p].op = "UploadFiles" /\ BodyReadable(call[p].req) =>
            LET ev == events[p]
                n  == Len(ev)
            IN  /\ \A i \in 1..(n - 1) : ev[i].exit = "ok"
                /\ \E order \in Orders(call[p].req.form) :
                      LET hdrs == Flatten(call[p].req.form, order, 1)
                      IN  /\ n <= Len(hdrs)
                          /\ \A i \in 1..n : ev[i].hdr = hdrs[i]
                          /\ ret[p].err = NoErr =>
                                /\ n = Len(hdrs)
                                /\ Len(ret[p].recs) = n
                                /\ \A i \in 1..n :
                                      ret[p].recs[i].OriginalFileName = hdrs[i].Filename
                /\ ret[p].err = NoErr <=> (n = 0 \/ ev[n].exit = "ok")
                /\ ret[p].err # NoErr =>
                      /\ ret[p] = RetNil(ret[p].err)
                      /\ \A i \in 1..(n - 1) : ev[i].path \in DOMAIN fs

\* C7 witness: UploadFiles failed at its second file or later, with a file
\* of the request left unprocessed and the earlier files changed on disk.
C7_Witness ==
    \E p \in Procs :
        /\ Done(p) /\ call[p].op = "UploadFiles"
        /\ ret[p].err # NoErr
        /\ Len(events[p]) >= 2
        /\ Len(events[p]) < FileCount(call[p].req.form)
        /\ fs # call[p].fs0

\* C8: a call leaves the Tools value as it found it: MaxFileSize and
\* AllowedTypes are after the call what they were before it.
C8_ConfigUnchanged ==
    \A p \in Procs : Done(p) => t = call[p].t0

\* C9: outside processUploadedFile a caller holds no open handle: whatever
\* way the function returns, the source and the destination it opened are
\* closed.
C9_HandlesClosed ==
    \A p \in Procs :
        pc[p] \notin {"sniff", "create", "copy"}
            => ~infile[p].open /\ ~outfile[p].open

\* C9 witness: processUploadedFile returned from a failed copy, with both
\* handles open when it failed.
C9_Witness ==
    \E p \in Procs :
        /\ Done(p) /\ events[p] # << >>
        /\ LastEvent(p).exit = "copy" /\ LastEvent(p).opened = 2

\* Two callers have both returned a record for the same destination path.
SamePath(p, q) ==
    /\ p # q /\ Done(p) /\ Done(q)
    /\ ret[p].kind = "record" /\ ret[q].kind = "record"
    /\ DestPath(ret[p].recs[1]) = DestPath(ret[q].recs[1])

Uploaded(p) == call[p].req.form["file"][1].data

\* C10 as stated: the file then holds the complete content of one of the
\* two uploads.
C10_Original ==
    \A p, q \in Procs :
        SamePath(p, q) =>
            fs[DestPath(ret[p].recs[1])] \in { Uploaded(p), Uploaded(q) }

\* C10 amended: nothing keeps the two calls apart.  If neither created the
\* file while the other had it open, the file holds the complete content of
\* one of the two uploads; otherwise it can hold a mixture: it is no longer
\* than the longer upload, and each of its bytes is the byte at that offset
\* of one of the two uploads or the zero byte of a hole.
C10_LastWriteOrMixture ==
    \A p, q \in Procs :
        SamePath(p, q) =>
            LET path == DestPath(ret[p].recs[1])
                f    == fs[path]
                a    == Uploaded(p)
                b    == Uploaded(q)
            IN  /\ path \notin raced => f \in { a, b }
                /\ Len(f) <= Max(Len(a), Len(b))
                /\ \A i \in DOMAIN f :
                      \/ f[i] = Zero
                      \/ i <= Len(a) /\ f[i] = a[i]
                      \/ i <= Len(b) /\ f[i] = b[i]

\* C10 witness: both calls returned a record for the same path, one created
\* the file while the other had it open, and the file holds neither upload.
C10_Witness ==
    \E p, q \in Procs :
        /\ SamePath(p, q)
        /\ DestPath(ret[p].recs[1]) \in raced
        /\ fs[DestPath(ret[p].recs[1])] \notin { Uploaded(p), Uploaded(q) }

(***************************************************************************)
(* ReadJSON (tools.go:243-287).                                            *)
(*                                                                         *)
(* A body is a sequence of lexical units, each counted as one byte:        *)
(*   "{" "}"  the braces of an object                                      *)
(*   "k"      a member the target has a field for, of the right type       *)
(*   "m"      a member the target has a field for, of the wrong type       *)
(*   "u" "v"  members "extra" and "other", which the target has no field   *)
(*            for                                                          *)
(*   "q"      a string literal                                             *)
(*   "s"      white space                                                  *)
(*   "!"      a byte that begins no JSON value                             *)
(* with lead bytes of white space before it and trail bytes after it, so   *)
(* that a body can be longer than the default limit.                       *)
(***************************************************************************)
\* tools.go:244, "maxBytes := 1024 * 1024 // 1MB"
DefaultMaxJSONSize == 1024 * 1024

JSONSizes == { -1, 0, 3, 5 }

Pads == { 0, DefaultMaxJSONSize }

BodyTokens ==
    { << >>, << "s" >>, << "!" >>, << "q" >>, << "s", "q", "s" >>,
      << "{", "}" >>, << "{", "k" >>, << "{", "!", "}" >>,
      << "{", "k", "}" >>, << "{", "k", "}", "s" >>,
      << "{", "k", "}", "!" >>, << "{", "k", "}", "q" >>,
      << "{", "k", "}", "{", "}" >>, << "{", "k", "}", "s", "{", "u", "}" >>,
      << "{", "u", "}" >>, << "{", "k", "u", "}" >>, << "{", "v", "u", "k", "}" >>,
      << "{", "m", "}" >>, << "{", "m", "u", "}" >>, << "{", "u", "m", "}" >>,
      << "{", "u", "}", "!" >>, << "{", "k", "k", "k", "k", "}" >> }

Bodies == [lead : Pads, toks : BodyTokens, trail : Pads]

BodySize(body) == body.lead + Len(body.toks) + body.trail

\* The byte at offset i, counted from 1.
ByteAt(body, i) ==
    IF i > body.lead /\ i <= body.lead + Len(body.toks)
        THEN body.toks[i - body.lead]
        ELSE "s"

\* An error value: the types errors.As and errors.Is find in its chain, its
\* Error() text in pieces, and the Offset and Field of a json error.
JErr(kinds, text, offset, field) ==
    [kinds |-> kinds, text |-> text, Offset |-> offset, Field |-> field]

NoJErr == JErr({}, << >>, 0, "")
ErrEOF == JErr({"EOF"}, << "EOF" >>, 0, "")
ErrUnexpectedEOF == JErr({"ErrUnexpectedEOF"}, << "unexpected EOF" >>, 0, "")
ErrMaxBytes == JErr({"MaxBytesError"}, << "http: request body too large" >>, 0, "")
SyntaxError(offset) == JErr({"SyntaxError"}, << "invalid character" >>, offset, "")
UnmarshalTypeError(field, offset) ==
    JErr({"UnmarshalTypeError"}, << "json: cannot unmarshal" >>, offset, field)
UnknownFieldPrefix == "json: unknown field "
ErrUnknownField(name) == JErr({}, << UnknownFieldPrefix, name >>, 0, "")
InvalidUnmarshalError == JErr({"InvalidUnmarshalError"}, << "json: Unmarshal(nil)" >>, 0, "")

\* tools.go:244-248
maxBytes(c) == IF c.MaxJSONSize > 0 THEN c.MaxJSONSize ELSE DefaultMaxJSONSize

\* http.MaxBytesReader: the reader hands over the first n bytes of the body;
\* it ends with EOF when the body is no longer than that, and with "http:
\* request body too large" when it is.
MaxBytesReader(body, n) ==
    [avail |-> Min(BodySize(body), n), over |-> BodySize(body) > n]

\* How a reader that has no more bytes ends.
EndOfInput(rd, partial) ==
    IF rd.over THEN ErrMaxBytes
    ELSE IF partial THEN ErrUnexpectedEOF
    ELSE ErrEOF

\* The offset of the first byte from offset i on that is not white space
\* and that the reader hands over; 0 when there is none.
NextNonSpace(body, i, rd) ==
    LET at == { j \in (body.lead + 1)..(body.lead + Len(body.toks)) :
                    j >= i /\ j <= rd.avail /\ body.toks[j - body.lead] # "s" }
    IN  IF at = {} THEN 0 ELSE CHOOSE j \in at : \A l \in at : j <= l

\* The scanner inside an object, at offset i: up to the closing brace, or to
\* a byte an object cannot hold, or to the end of what the reader hands
\* over.
RECURSIVE scanObject(_, _, _)
scanObject(body, i, rd) ==
    IF i > rd.avail \/ i > body.lead + Len(body.toks)
        THEN [err |-> EndOfInput(rd, TRUE), end |-> 0]
    ELSE IF ByteAt(body, i) = "}" THEN [err |-> NoJErr, end |-> i]
    ELSE IF ByteAt(body, i) \in {"k", "m", "u", "v", "s"} THEN scanObject(body, i + 1, rd)
    ELSE [err |-> SyntaxError(i), end |-> 0]

\* Decoder.readValue: the next value from offset from on.  The bytes the
\* reader handed over are scanned before its error is looked at.
readValue(body, from, rd) ==
    LET p == NextNonSpace(body, from, rd)
    IN  IF p = 0 THEN [err |-> EndOfInput(rd, FALSE), start |-> 0, end |-> 0]
        ELSE IF ByteAt(body, p) = "q" THEN [err |-> NoJErr, start |-> p, end |-> p]
        ELSE IF ByteAt(body, p) = "{"
            THEN LET o == scanObject(body, p + 1, rd)
                 IN  [err |-> o.err, start |-> p, end |-> o.end]
        ELSE [err |-> SyntaxError(p), start |-> 0, end |-> 0]

\* What ReadJSON decodes into: a pointer to a struct with one string field
\* "foo"; something json cannot decode into (nil, or not a pointer); the
\* empty struct of the second Decode; or a type with an UnmarshalJSON method
\* of its own, which returns the error it likes.
StructTarget == [kind |-> "struct", err |-> NoJErr]
InvalidTarget == [kind |-> "invalid", err |-> NoJErr]
EmptyStruct == [kind |-> "empty", err |-> NoJErr]

ErrorKinds == { "SyntaxError", "ErrUnexpectedEOF", "UnmarshalTypeError", "EOF",
                "InvalidUnmarshalError" }

ErrorTexts == { << "boom" >>, << UnknownFieldPrefix, "\"x\"" >>,
                << "http: request body too large" >> }

CustomErrors ==
    { JErr(ks, text, 7, f) : ks \in { s \in SUBSET ErrorKinds : Cardinality(s) <= 2 },
                             text \in ErrorTexts, f \in { "", "foo" } }

Targets == { StructTarget, InvalidTarget }
               \cup { [kind |-> "custom", err |-> e] : e \in CustomErrors }

\* The error a member of an object leaves in the decoder: a wrong type for
\* a field the target has, or a member the target has no field for when
\* unknown fields are disallowed.
MemberError(tok, i, target, disallow) ==
    IF target.kind = "struct" /\ tok = "m" THEN UnmarshalTypeError("foo", i)
    ELSE IF target.kind = "struct" /\ tok = "k" THEN NoJErr
    ELSE IF tok = "s" \/ ~disallow THEN NoJErr
    ELSE IF tok = "v" THEN ErrUnknownField("\"other\"")
    ELSE IF tok = "u" THEN ErrUnknownField("\"extra\"")
    ELSE ErrUnknownField("\"foo\"")

\* decodeState.unmarshal of the value at val into the target: the decoder
\* goes through the whole value and returns the first error it saved.
unmarshal(body, val, target, disallow) ==
    IF target.kind = "invalid" THEN InvalidUnmarshalError
    ELSE IF target.kind = "custom" THEN target.err
    ELSE IF ByteAt(body, val.start) = "q" THEN UnmarshalTypeError("", val.end)
    ELSE LET bad == { i \in (val.start + 1)..(val.end - 1) :
                        MemberError(ByteAt(body, i), i, target, disallow) # NoJErr }
         IN  IF bad = {} THEN NoJErr
             ELSE LET i == CHOOSE j \in bad : \A l \in bad : j <= l
                  IN  MemberError(ByteAt(body, i), i, target, disallow)

\* The fields the decoder has set in a struct target: foo, when the value
\* has a well-typed member for it.
Decoded(body, val, target) ==
    IF target.kind = "struct"
        THEN { "foo" : i \in { j \in (val.start + 1)..(val.end - 1) : ByteAt(body, j) = "k" } }
        ELSE {}

\* Decoder.Decode from offset from on.
Decode(body, from, rd, target, disallow) ==
    LET val == readValue(body, from, rd)
    IN  IF val.err # NoJErr
            THEN [err |-> val.err, next |-> from, set |-> {}]
            ELSE [err |-> unmarshal(body, val, target, disallow),
                  next |-> val.end + 1,
                  set |-> Decoded(body, val, target)]

Is(err, kind) == kind \in err.kinds
HasPrefix(text, prefix) == Len(text) >= 1 /\ text[1] = prefix

\* An error ReadJSON returns: its format, the number and the name it puts
\* in, and the error it passes on.
Out(msg, n, name, cause) == [msg |-> msg, n |-> n, name |-> name, cause |-> cause]
OutNil == Out("", 0, << >>, NoJErr)

BadlyFormedAt == "body contains badly-formed JSON (at character %d)"
BadlyFormed == "body contains badly-formed JSON"
IncorrectTypeFor == "body contains incorrect JSON type for field %q"
IncorrectTypeAt == "body contains incorrect JSON type (at character %d)"
EmptyBody == "body must not be empty"
UnknownField == "body contains unknown field %s"
TooLarge == "body must not be larger than %d bytes"
InternalError == "internal error: %v"
SingleValue == "body must only contain a single JSON value"

\* tools.go:254-280, the switch over the error of the first Decode.
decodeErrorTooLargeLast(err, n) ==
    IF Is(err, "SyntaxError") THEN Out(BadlyFormedAt, err.Offset, << >>, NoJErr)
    ELSE IF Is(err, "ErrUnexpectedEOF") THEN Out(BadlyFormed, 0, << >>, NoJErr)
    ELSE IF Is(err, "UnmarshalTypeError")
        THEN IF err.Field # ""
                 THEN Out(IncorrectTypeFor, 0, << err.Field >>, NoJErr)
                 ELSE Out(IncorrectTypeAt, err.Offset, << >>, NoJErr)
    ELSE IF Is(err, "EOF") THEN Out(EmptyBody, 0, << >>, NoJErr)
    ELSE IF HasPrefix(err.text, UnknownFieldPrefix)
        THEN Out(UnknownField, 0, Tail(err.text), NoJErr)
    ELSE IF Is(err, "InvalidUnmarshalError") THEN Out(InternalError, 0, << >>, err)
    ELSE IF err.text = << "http: request body too large" >> THEN Out(TooLarge, n, << >>, NoJErr)
    ELSE Out("", 0, << >>, err)

decodeError(err, n) ==
    IF Is(err, "SyntaxError") THEN Out(BadlyFormedAt, err.Offset, << >>, NoJErr)
    ELSE IF Is(err, "ErrUnexpectedEOF") THEN Out(BadlyFormed, 0, << >>, NoJErr)
    ELSE IF Is(err, "UnmarshalTypeError")
        THEN IF err.Field # ""
                 THEN Out(IncorrectTypeFor, 0, << err.Field >>, NoJErr)
                 ELSE Out(IncorrectTypeAt, err.Offset, << >>, NoJErr)
    ELSE IF Is(err, "EOF") THEN Out(EmptyBody, 0, << >>, NoJErr)
    ELSE IF HasPrefix(err.text, UnknownFieldPrefix)
        THEN Out(UnknownField, 0, Tail(err.text), NoJErr)
    ELSE IF err.text = << "http: request body too large" >> THEN Out(TooLarge, n, << >>, NoJErr)
    ELSE IF Is(err, "InvalidUnmarshalError") THEN Out(InternalError, 0, << >>, err)
    ELSE Out("", 0, << >>, err)

\* tools.go:249-252
disallowUnknownFieldsNever(c) == FALSE

disallowUnknownFields(c) == ~c.AllowUnknownFields

\* tools.go:282-285, the second Decode: anything but io.EOF is an error.
singleValueAny(err) == OutNil

singleValue(err) == IF err # ErrEOF THEN Out(SingleValue, 0, << >>, NoJErr) ELSE OutNil

UploadIdle ==
    /\ t = [MaxFileSize |-> 0, AllowedTypes |-> << >>]
    /\ fs = << >> /\ pc = << >> /\ ncalls = << >> /\ call = << >>
    /\ queue = << >> /\ infile = << >> /\ outfile = << >>
    /\ uploadedFile = << >> /\ uploadedFiles = << >> /\ events = << >>
    /\ ret = << >> /\ raced = {}

InitJSON ==
    /\ cfg \in [MaxJSONSize : JSONSizes, AllowUnknownFields : BOOLEAN]
    /\ jreq \in [body : Bodies, target : Targets]
    /\ jret = << >>
    /\ UploadIdle /\ WriteIdle /\ DownloadIdle /\ SlugIdle /\ DirIdle /\ RandIdle

\* One call of ReadJSON, from the first line to the return.
ReadJSON ==
    /\ jreq # << >> /\ jret = << >>
    /\ LET n == maxBytes(cfg)
           rd == MaxBytesReader(jreq.body, n)
           disallow == disallowUnknownFields(cfg)
           first == Decode(jreq.body, 1, rd, jreq.target, disallow)
           second == Decode(jreq.body, first.next, rd, EmptyStruct, disallow)
       IN  jret' = IF first.err # NoJErr
                       THEN [err |-> decodeError(first.err, n), first |-> first,
                             second |-> << >>]
                       ELSE [err |-> singleValue(second.err), first |-> first,
                             second |-> << second >>]
    /\ UNCHANGED << cfg, jreq, uploadVars, randVars, writeVars, downloadVars, slugVars, dirVars >>

NextJSON == ReadJSON

SpecJSON == InitJSON /\ [][NextJSON]_vars

\* ReadJSON has returned.
Read == jret # << >>

\* C11: on a body longer than the configured limit (MaxJSONSize, or 1 MiB
\* when MaxJSONSize is not positive) ReadJSON fails with "body must not be
\* larger than <limit> bytes", naming that limit, whatever the body holds.
C11_OversizedBodyTooLarge ==
    Read /\ BodySize(jreq.body) > maxBytes(cfg)
        => jret.err = Out(TooLarge, maxBytes(cfg), << >>, NoJErr)

\* The first value of the body ends at offset e and only white space
\* follows it, up to the end of the stream.
OnlySpaceFollows(body, e, limit) ==
    /\ BodySize(body) <= limit
    /\ \A i \in 1..Len(body.toks) : body.lead + i > e => body.toks[i] = "s"

\* C12: ReadJSON returns nil only when the first Decode succeeded; once it
\* has, ReadJSON returns nil when only white space follows the first value
\* up to the end of the stream, and fails with "body must only contain a
\* single JSON value" when anything else follows it (a second value, a
\* byte that begins none, or a read error).
C12_SingleValue ==
    Read =>
        /\ jret.err = OutNil => jret.first.err = NoJErr
        /\ jret.first.err = NoJErr =>
              jret.err = IF OnlySpaceFollows(jreq.body, jret.first.next - 1, maxBytes(cfg))
                             THEN OutNil
                             ELSE Out(SingleValue, 0, << >>, NoJErr)

\* C12 witness: the first Decode succeeded on a body within the limit in
\* which a byte that begins no value follows the first value, and ReadJSON
\* has failed.
C12_Witness ==
    /\ Read /\ jret.first.err = NoJErr
    /\ jreq.body = [lead |-> 0, toks |-> << "{", "k", "}", "!" >>, trail |-> 0]
    /\ BodySize(jreq.body) <= maxBytes(cfg)
    /\ jret.err.msg = SingleValue

\* The body is one object with a closing brace, within the limit, with no
\* byte an object cannot hold and no member of the wrong type, followed by
\* white space only: a payload that is well-formed but for the members the
\* target has no field for.
WellFormedObject(body, limit) ==
    LET toks == body.toks
        close == { i \in 1..Len(toks) : toks[i] = "}" }
    IN  /\ BodySize(body) <= limit
        /\ Len(toks) >= 2 /\ toks[1] = "{" /\ close # {}
        /\ LET e == CHOOSE i \in close : \A l \in close : i <= l
           IN  /\ \A i \in 2..(e - 1) : toks[i] \in {"k", "u", "v"}
               /\ \A i \in (e + 1)..Len(toks) : toks[i] = "s"

\* The names of the members the struct target has no field for, in the
\* order of the body.
UnknownNames(body) ==
    SelectSeq([i \in 1..Len(body.toks) |->
                   IF body.toks[i] = "u" THEN "\"extra\""
                   ELSE IF body.toks[i] = "v" THEN "\"other\"" ELSE ""],
              LAMBDA n : n # "")

\* C13: on a well-formed payload that has a member the target has no field
\* for, ReadJSON with AllowUnknownFields false fails with "body contains
\* unknown field <name>" naming the first such member; with
\* AllowUnknownFields true it returns nil and the fields the payload has a
\* well-typed member for are decoded.
C13_UnknownFields ==
    /\ Read /\ jreq.target = StructTarget
    /\ WellFormedObject(jreq.body, maxBytes(cfg))
    /\ UnknownNames(jreq.body) # << >>
    => IF cfg.AllowUnknownFields
           THEN /\ jret.err = OutNil
                /\ jret.first.set = { "foo" : i \in { j \in 1..Len(jreq.body.toks) :
                                                        jreq.body.toks[j] = "k" } }
           ELSE jret.err = Out(UnknownField, 0, << Head(UnknownNames(jreq.body)) >>, NoJErr)

\* C13 witness: ReadJSON with AllowUnknownFields false has rejected a
\* payload with a known member and two unknown ones, naming the first.
C13_Witness ==
    /\ Read /\ jreq.target = StructTarget /\ ~cfg.AllowUnknownFields
    /\ jreq.body.toks = << "{", "v", "u", "k", "}" >>
    /\ jret.err = Out(UnknownField, 0, << "\"other\"" >>, NoJErr)

\* The categories of decode errors, in the order of the claim.
Categories == 1..7

Matches(k, err) ==
    CASE k = 1 -> Is(err, "SyntaxError")
      [] k = 2 -> Is(err, "ErrUnexpectedEOF")
      [] k = 3 -> Is(err, "UnmarshalTypeError")
      [] k = 4 -> Is(err, "EOF")
      [] k = 5 -> Len(err.text) >= 1 /\ err.text[1] = "json: unknown field "
      [] k = 6 -> err.text = << "http: request body too large" >>
      [] k = 7 -> Is(err, "InvalidUnmarshalError")

Reported(k, err, limit) ==
    CASE k = 1 -> Out(BadlyFormedAt, err.Offset, << >>, NoJErr)
      [] k = 2 -> Out(BadlyFormed, 0, << >>, NoJErr)
      [] k = 3 -> IF err.Field = "" THEN Out(IncorrectTypeAt, err.Offset, << >>, NoJErr)
                  ELSE Out(IncorrectTypeFor, 0, << err.Field >>, NoJErr)
      [] k = 4 -> Out(EmptyBody, 0, << >>, NoJErr)
      [] k = 5 -> Out(UnknownField, 0, Tail(err.text), NoJErr)
      [] k = 6 -> Out(TooLarge, limit, << >>, NoJErr)
      [] k = 7 -> Out(InternalError, 0, << >>, err)

\* C18: a failure of the first Decode is reported under the first category
\* it matches, in the order syntax error (with its offset), unexpected EOF,
\* type mismatch (with the field when known, else the offset), EOF, unknown
\* field (with its name), body too large (with the limit), invalid decode
\* target; an error that matches none is returned as it is.
C18_ErrorPrecedence ==
    Read /\ jret.first.err # NoJErr =>
        LET err == jret.first.err
            ks  == { k \in Categories : Matches(k, err) }
        IN  IF ks = {} THEN jret.err = Out("", 0, << >>, err)
            ELSE \E k \in ks :
                    /\ \A l \in ks : k <= l
                    /\ jret.err = Reported(k, err, maxBytes(cfg))

\* C18 witness: the first Decode has failed with an error that is both
\* "http: request body too large" and an InvalidUnmarshalError, and
\* ReadJSON has reported it as too large.
C18_Witness ==
    /\ Read
    /\ Matches(6, jret.first.err) /\ Matches(7, jret.first.err)
    /\ jret.err.msg = TooLarge

(***************************************************************************)
(* WriteJSON (tools.go:290-307).                                           *)
(*                                                                         *)
(* An http.Header is a function from keys to lists of values.  The keys    *)
(* are in canonical form, as the documentation of http.Header asks.        *)
(***************************************************************************)
ContentType == "Content-Type"
ApplicationJSON == "application/json"
XReq == "X-Req"

NoHeader == << >>
Header1(k, v) == [x \in { k } |-> v]
Header2(k1, v1, k2, v2) == [x \in { k1, k2 } |-> IF x = k1 THEN v1 ELSE v2]

\* What the response's header holds when WriteJSON is called.
HeadersBefore ==
    { NoHeader, Header1(XReq, << "old" >>), Header1(XReq, << "old", "older" >>),
      Header1(ContentType, << "text/html" >>) }

\* The variadic headers argument: none, one header, or two.
ExtraHeaders ==
    { << >>, << NoHeader >>,
      << Header1(XReq, << "new" >>) >>,
      << Header1(XReq, << "n1", "n2" >>) >>,
      << Header1(ContentType, << "text/plain" >>) >>,
      << Header2(XReq, << "new" >>, ContentType, << "text/plain", "text/css" >>) >>,
      << Header1(XReq, << "new" >>), Header1(XReq, << "second" >>) >> }

Statuses == { 200, 404, 204 }

\* The data: something json.Marshal encodes, or something it refuses (a
\* channel, a function).
Datas == { "payload", "unsupported" }

\* json.Marshal
Marshal(data) ==
    IF data = "unsupported" THEN [out |-> << >>, err |-> "json: unsupported type"]
    ELSE [out |-> << "{", "}" >>, err |-> ""]

\* Header.Set: the key holds the one value.
Set(h, key, value) ==
    [k \in DOMAIN h \cup { key } |-> IF k = key THEN << value >> ELSE h[k]]

\* tools.go:295-299: every key of the first extra header is assigned its
\* list of values.
setHeaders(h, headers) ==
    IF Len(headers) > 0
        THEN [k \in DOMAIN h \cup DOMAIN headers[1] |->
                 IF k \in DOMAIN headers[1] THEN headers[1][k] ELSE h[k]]
        ELSE h

\* ResponseWriter.WriteHeader: the status and the header as it is now are
\* what the client gets; a second call changes nothing.
WriteHeader(rw, status) ==
    IF rw.status # 0 THEN rw
    ELSE [rw EXCEPT !.status = status, !.sent = rw.header, !.log = @ \o << "status" >>]

\* A status without a body: the server refuses the Write.
BodyAllowed(status) == status # 204

\* ResponseWriter.Write: writes the header with status 200 if nothing has
\* yet; fails when the status allows no body or the connection is gone.
Write(rw, out, broken) ==
    LET rw1 == WriteHeader(rw, 200)
    IN  IF broken \/ ~BodyAllowed(rw1.status) THEN [rw |-> rw1, err |-> "write"]
        ELSE [rw |-> [rw1 EXCEPT !.body = @ \o out, !.log = @ \o << "body" >>],
              err |-> ""]

\* tools.go:295-302: the steps of WriteJSON after Marshal, in order.
writeJSONStepsHeadersLast == << "contentType", "headers", "status", "body" >>

writeJSONSteps == << "headers", "contentType", "status", "body" >>

\* One step of WriteJSON on the response writer.
Step(name, rw, req, out) ==
    CASE name = "headers" ->
            [rw |-> [rw EXCEPT !.header = setHeaders(@, req.headers),
                               !.log = @ \o << "headers" >>], err |-> ""]
      [] name = "contentType" ->
            [rw |-> [rw EXCEPT !.header = Set(@, ContentType, ApplicationJSON),
                               !.log = @ \o << "contentType" >>], err |-> ""]
      [] name = "status" -> [rw |-> WriteHeader(rw, req.status), err |-> ""]
      [] name = "body" -> Write(rw, out, req.broken)

RECURSIVE RunSteps(_, _, _, _, _)
RunSteps(steps, i, rw, req, out) ==
    IF i > Len(steps) THEN [rw |-> rw, err |-> ""]
    ELSE LET r == Step(steps[i], rw, req, out)
         IN  IF r.err # "" THEN r ELSE RunSteps(steps, i + 1, r.rw, req, out)

InitWrite ==
    /\ wreq \in [status : Statuses, data : Datas, headers : ExtraHeaders,
                 broken : BOOLEAN]
    /\ w \in [header : HeadersBefore, sent : { NoHeader }, status : { 0 },
              body : { << >> }, log : { << >> }]
    /\ wret = << >>
    /\ UploadIdle /\ JSONIdle /\ DownloadIdle /\ SlugIdle /\ DirIdle /\ RandIdle

\* One call of WriteJSON, from the first line to the return.
WriteJSON ==
    /\ wreq # << >> /\ wret = << >>
    /\ LET m == Marshal(wreq.data)
           r == RunSteps(writeJSONSteps, 1, w, wreq, m.out)
       IN  IF m.err # ""
               THEN /\ wret' = [err |-> m.err, before |-> w.header]
                    /\ w' = w
               ELSE /\ wret' = [err |-> r.err, before |-> w.header]
                    /\ w' = r.rw
    /\ UNCHANGED << wreq, uploadVars, randVars, jsonVars, downloadVars, slugVars, dirVars >>

NextWrite == WriteJSON

SpecWrite == InitWrite /\ [][NextWrite]_vars

\* WriteJSON has returned nil.
Written == wret # << >> /\ wret.err = ""

\* The offsets of an entry in the log of the response writer.
At(log, what) == { i \in 1..Len(log) : log[i] = what }

\* C14: after WriteJSON has returned nil, the response the client gets has
\* Content-Type application/json and nothing else under that key, whatever
\* the extra headers hold; every other key of the first extra header holds
\* the caller's values and only those, and every other key what it held
\* before; the status is the caller's, written once, after every header was
\* set and before the body, which is the encoded data.
C14_ResponseWritten ==
    Written =>
        LET extra == IF Len(wreq.headers) > 0 THEN wreq.headers[1] ELSE NoHeader
        IN  /\ DOMAIN w.sent = DOMAIN wret.before \cup DOMAIN extra \cup { ContentType }
            /\ w.sent[ContentType] = << ApplicationJSON >>
            /\ \A k \in DOMAIN extra \ { ContentType } : w.sent[k] = extra[k]
            /\ \A k \in DOMAIN wret.before \ (DOMAIN extra \cup { ContentType }) :
                   w.sent[k] = wret.before[k]
            /\ w.status = wreq.status
            /\ Cardinality(At(w.log, "status")) = 1
            /\ \A i \in At(w.log, "status") :
                   /\ \A j \in At(w.log, "headers") \cup At(w.log, "contentType") : j < i
                   /\ \A j \in At(w.log, "body") : i < j
            /\ w.body = Marshal(wreq.data).out

\* C14 witness: WriteJSON has returned nil on a response that had a value
\* under X-Req, with an extra header that carries a Content-Type of its own
\* and another value for X-Req.
C14_Witness ==
    /\ Written
    /\ wret.before = Header1(XReq, << "old", "older" >>)
    /\ Len(wreq.headers) > 0 /\ ContentType \in DOMAIN wreq.headers[1]
    /\ w.sent[XReq] = << "new" >>

(***************************************************************************)
(* DownloadStaticFile (tools.go:204-232).                                  *)
(***************************************************************************)
StaticDir == << "d" >>

RegularFile(data, readable) == [kind |-> "file", data |-> data, readable |-> readable]
Directory == [kind |-> "dir", data |-> << >>, readable |-> TRUE]

NameF == << "f" >>
NameG == << "g" >>
NameS == << "s" >>
NameX == << "x" >>

\* What is on disk: a readable file d/f, a file d/g the process may not
\* open, and the directories ".", d and d/s.
StaticDisk ==
    [q \in { << Dot >>, StaticDir, Join(StaticDir, NameF), Join(StaticDir, NameG),
             Join(StaticDir, NameS) } |->
        IF q = Join(StaticDir, NameF) THEN RegularFile(<< "x", "y", "z" >>, TRUE)
        ELSE IF q = Join(StaticDir, NameG) THEN RegularFile(<< "w" >>, FALSE)
        ELSE Directory]

FileNames == { NameF, NameG, NameS, NameX, DotDot }
DisplayNames == { << "n" >>, << "a", ".", "t" >> }

\* The request: its method, the form of its URL path (http.ServeFile looks
\* at it) and whether it asks for a range, here the first byte.
Methods == { "GET", "HEAD" }
URLPaths == { "/download", "/a/../download", "/files/index.html" }
Requests == [method : Methods, url : URLPaths, range : BOOLEAN]

NoResponse == [code |-> 0, body |-> << >>, disposition |-> << >>]

\* tools.go:229
Disposition(displayName) == << "attachment; filename=\"" >> \o displayName \o << "\"" >>

\* os.Stat and FileInfo.IsDir, tools.go:208-209
statIsDirNever(dk, filePath) == FALSE

statIsDir(dk, filePath) == filePath \in DOMAIN dk /\ dk[filePath].kind = "dir"

\* os.Open and os.IsPermission, tools.go:216-220
openIsPermission(dk, filePath) == filePath \in DOMAIN dk /\ ~dk[filePath].readable

\* http.Error and http.NotFound: the status, with a text for a body.
Error(resp, code) == [resp EXCEPT !.code = code, !.body = << "error" >>]

\* http.ServeFile: rejects a URL path with a ".." element, redirects one
\* that ends in /index.html, answers 404 or 403 when it cannot open the
\* file, lists a directory, and otherwise serves the content: the range
\* asked for with 206, else all of it with 200; a HEAD gets no body.
ServeFile(resp, req, dk, filePath) ==
    IF req.url = "/a/../download" THEN Error(resp, 400)
    ELSE IF req.url = "/files/index.html" THEN [resp EXCEPT !.code = 301]
    ELSE IF filePath \notin DOMAIN dk THEN Error(resp, 404)
    ELSE IF ~dk[filePath].readable THEN Error(resp, 403)
    ELSE IF dk[filePath].kind = "dir"
        THEN [resp EXCEPT !.code = 200, !.body = << "listing" >>]
    ELSE LET data == dk[filePath].data
             part == IF req.range THEN SubSeq(data, 1, 1) ELSE data
         IN  [resp EXCEPT !.code = IF req.range THEN 206 ELSE 200,
                          !.body = IF req.method = "HEAD" THEN << >> ELSE part]

InitDownload ==
    /\ disk = StaticDisk
    /\ dreq \in [r : Requests, path : { StaticDir }, fileName : FileNames,
                 displayName : DisplayNames]
    /\ dresp = NoResponse
    /\ UploadIdle /\ JSONIdle /\ WriteIdle /\ SlugIdle /\ DirIdle /\ RandIdle

\* One call of DownloadStaticFile, from the first line to the return.
DownloadStaticFile ==
    /\ dreq # << >> /\ dresp = NoResponse
    /\ LET filePath == Join(dreq.path, dreq.fileName)
       IN  dresp' =
             IF statIsDir(disk, filePath) THEN Error(dresp, 404)
             ELSE IF openIsPermission(disk, filePath) THEN Error(dresp, 403)
             ELSE ServeFile([dresp EXCEPT !.disposition = Disposition(dreq.displayName)],
                            dreq.r, disk, filePath)
    /\ UNCHANGED << disk, dreq, uploadVars, randVars, jsonVars, writeVars, slugVars, dirVars >>

NextDownload == DownloadStaticFile

SpecDownload == InitDownload /\ [][NextDownload]_vars

\* DownloadStaticFile has returned.
Downloaded == dresp # NoResponse

Asked == Join(dreq.path, dreq.fileName)
IsDirectory == Asked \in DOMAIN disk /\ disk[Asked].kind = "dir"
IsMissing == Asked \notin DOMAIN disk
IsUnreadable == Asked \in DOMAIN disk /\ disk[Asked].kind = "file" /\ ~disk[Asked].readable

\* A GET without a Range header whose URL path has no ".." element and does
\* not end in /index.html.
PlainGet(r) == r.method = "GET" /\ ~r.range /\ r.url = "/download"

MaxSlugLen == 4

\* The characters of an argument: ASCII letters in both cases, a digit, a
\* hyphen, a space, a letter outside ASCII (a with acute, U+00E1) and the
\* Kelvin sign (U+212A), whose lower case is the ASCII letter k.
AAcute == "U+00E1"
KelvinSign == "U+212A"
SlugChars == { "a", "B", "1", "-", " ", AAcute, KelvinSign }

SlugInputs == UNION { [1..n -> SlugChars] : n \in 0..MaxSlugLen }

\* The characters the expression [^a-z\d]+ does not match: a to z and 0 to
\* 9 (in Go's regexp \d is the ASCII digits).
AZ09 == { randomStringSource[i] : i \in (1..26) \cup (53..62) }

\* unicode.ToLower
ToLowerRune(c) ==
    IF c = KelvinSign THEN "k"
    ELSE IF \E i \in 27..52 : randomStringSource[i] = c
        THEN randomStringSource[(CHOOSE i \in 27..52 : randomStringSource[i] = c) - 26]
    ELSE c

\* strings.ToLower
ToLower(s) == [i \in 1..Len(s) |-> ToLowerRune(s[i])]

\* Regexp.ReplaceAllString of [^a-z\d]+ by "-", from offset i on; inRun
\* says that the character before is part of the match.
RECURSIVE ReplaceAllString(_, _, _)
ReplaceAllString(s, i, inRun) ==
    IF i > Len(s) THEN << >>
    ELSE IF s[i] \in AZ09 THEN << s[i] >> \o ReplaceAllString(s, i + 1, FALSE)
    ELSE IF inRun THEN ReplaceAllString(s, i + 1, TRUE)
    ELSE << "-" >> \o ReplaceAllString(s, i + 1, TRUE)

\* strings.Trim(s, "-")
RECURSIVE TrimLeft(_)
TrimLeft(s) == IF s # << >> /\ Head(s) = "-" THEN TrimLeft(Tail(s)) ELSE s

RECURSIVE TrimRight(_)
TrimRight(s) ==
    IF s # << >> /\ s[Len(s)] = "-" THEN TrimRight(SubSeq(s, 1, Len(s) - 1)) ELSE s

TrimNone(s) == s

Trim(s) == TrimRight(TrimLeft(s))

ErrEmptyString == "empty string not permitted"
ErrZeroLength == "after removing characters, slug is zero length"

\* tools.go:190-201
Slug(s) ==
    IF s = << >> THEN [slug |-> << >>, err |-> ErrEmptyString]
    ELSE LET slug == Trim(ReplaceAllString(ToLower(s), 1, FALSE))
         IN  IF Len(slug) = 0 THEN [slug |-> << >>, err |-> ErrZeroLength]
             ELSE [slug |-> slug, err |-> ""]

InitSlug ==
    /\ slugIn \in SlugInputs
    /\ slugOut = << >>
    /\ UploadIdle /\ JSONIdle /\ WriteIdle /\ DownloadIdle /\ DirIdle /\ RandIdle

\* Slugify is called on the argument.
Slugify ==
    /\ Len(slugOut) = 0
    /\ slugOut' = << Slug(slugIn) >>
    /\ UNCHANGED << slugIn, uploadVars, randVars, jsonVars, writeVars, downloadVars, dirVars >>

\* Slugify is called on the slug it returned.
SlugifyAgain ==
    /\ Len(slugOut) = 1 /\ slugOut[1].err = ""
    /\ slugOut' = Append(slugOut, Slug(slugOut[1].slug))
    /\ UNCHANGED << slugIn, uploadVars, randVars, jsonVars, writeVars, downloadVars, dirVars >>

NextSlug == Slugify \/ SlugifyAgain

SpecSlug == InitSlug /\ [][NextSlug]_vars

\* Slugify has returned.
Slugged == Len(slugOut) >= 1

\* The ASCII letters and digits.
AsciiAlnum == { randomStringSource[i] : i \in 1..62 }

\* The slug of a lower-cased string, from offset i on: its characters in a
\* to z and 0 to 9 in their order, with one hyphen between two of them that
\* are not neighbours; prev is the offset of the one before, 0 when none.
RECURSIVE HyphenatedFrom(_, _, _)
HyphenatedFrom(low, i, prev) ==
    IF i > Len(low) THEN << >>
    ELSE IF low[i] \notin AZ09 THEN HyphenatedFrom(low, i + 1, prev)
    ELSE (IF prev > 0 /\ prev < i - 1 THEN << "-" >> ELSE << >>)
            \o << low[i] >> \o HyphenatedFrom(low, i + 1, i)

\* Not empty, only a to z, 0 to 9 and hyphens, no hyphen at either end and
\* no two hyphens in a row.
WellFormedSlug(slug) ==
    /\ slug # << >>
    /\ \A i \in 1..Len(slug) : slug[i] \in AZ09 \cup { "-" }
    /\ slug[1] # "-" /\ slug[Len(slug)] # "-"
    /\ \A i \in 1..(Len(slug) - 1) : ~(slug[i] = "-" /\ slug[i + 1] = "-")

\* What C16 says of a call that returns a slug.
SlugAsClaimed ==
    /\ slugOut[1].slug = HyphenatedFrom(ToLower(slugIn), 1, 0)
    /\ WellFormedSlug(slugOut[1].slug)
    /\ Len(slugOut) = 2 => slugOut[2] = [slug |-> slugOut[1].slug, err |-> ""]

\* C16 as stated: Slugify fails exactly when the argument is empty or has
\* no ASCII letter or digit.
C16_Original ==
    Slugged =>
        /\ slugOut[1].err # "" <=>
              (slugIn = << >> \/ \A i \in 1..Len(slugIn) : slugIn[i] \notin AsciiAlnum)
        /\ slugOut[1].err = "" => SlugAsClaimed

\* C16 amended: Slugify fails exactly when the argument is empty or has no
\* character whose lower case (strings.ToLower) is in a to z or 0 to 9.
\* Otherwise it returns the lower-cased argument with every maximal run of
\* other characters replaced by one hyphen and the hyphens at both ends
\* removed: a slug that is not empty, holds only a to z, 0 to 9 and
\* hyphens, has no hyphen at either end and no two in a row, and that
\* Slugify returns unchanged.
C16_Slugify ==
    Slugged =>
        /\ slugOut[1].err # "" <=>
              (slugIn = << >> \/ \A i \in 1..Len(slugIn) : ToLowerRune(slugIn[i]) \notin AZ09)
        /\ slugOut[1].err # "" => slugOut[1].slug = << >>
        /\ slugOut[1].err = "" => SlugAsClaimed

\* C16 witness: Slugify has been called twice, on an argument with an upper
\* case letter and a run of two other characters, and then on its slug.
C16_Witness ==
    /\ Len(slugOut) = 2
    /\ slugIn = << "B", " ", AAcute, "1" >>
    /\ slugOut[1].slug = << "b", "-", "1" >>

(***************************************************************************)
(* CreateDirIfNotExist (tools.go:176-187).                                 *)
(*                                                                         *)
(* The paths are those of one chain, p1, p1/p2, ... named by their depth;  *)
(* tree[n] says what is at the path of depth n.                            *)
(***************************************************************************)
\* The depth of the longest path.
MaxDepth == 3
\* Calls of CreateDirIfNotExist in a row.
MaxDirCalls == 2

\* What can be on disk: under a path that is not a directory there is
\* nothing.
Trees ==
    { tr \in [1..MaxDepth -> { "missing", "dir", "file" }] :
        \A n \in 1..(MaxDepth - 1) : tr[n] # "dir" => tr[n + 1] = "missing" }

\* os.Stat of the path of depth n: the path is there, or it is missing
\* (ENOENT), or a parent is a regular file (ENOTDIR), or the process may
\* not look (EACCES).
Stat(tr, n, denied) ==
    IF denied THEN "EACCES"
    ELSE IF \E m \in 1..(n - 1) : tr[m] = "file" THEN "ENOTDIR"
    ELSE IF tr[n] = "missing" THEN "ENOENT"
    ELSE ""

\* os.IsNotExist
IsNotExist(errno) == errno = "ENOENT"

\* os.MkdirAll of the path of depth n: nothing to do on a directory; an
\* error on a regular file or under one; otherwise the missing directories
\* are made from the top down, up to the depth at which the system refuses
\* (deny, 0 when it never does).
MkdirAll(tr, n, deny) ==
    IF tr[n] = "dir" THEN [tree |-> tr, err |-> ""]
    ELSE IF \E m \in 1..n : tr[m] = "file" THEN [tree |-> tr, err |-> "ENOTDIR"]
    ELSE LET refused == deny \in 1..n /\ tr[deny] = "missing"
             upto == IF refused THEN deny - 1 ELSE n
         IN  [tree |-> [m \in 1..MaxDepth |-> IF m <= upto THEN "dir" ELSE tr[m]],
              err |-> IF refused THEN "EACCES" ELSE ""]

NoMkReq == [dir |-> 0, denied |-> FALSE, deny |-> 0]

InitDir ==
    /\ tree \in Trees
    /\ mkreq = NoMkReq
    /\ mkret = << >>
    /\ UploadIdle /\ JSONIdle /\ WriteIdle /\ DownloadIdle /\ SlugIdle /\ RandIdle

\* One call of CreateDirIfNotExist on the path of depth n.
CreateDirIfNotExist ==
    /\ Len(mkret) < MaxDirCalls
    /\ \E n \in 1..MaxDepth, denied \in BOOLEAN, deny \in 0..MaxDepth :
          LET made == IF IsNotExist(Stat(tree, n, denied))
                          THEN MkdirAll(tree, n, deny)
                          ELSE [tree |-> tree, err |-> ""]
          IN  /\ mkreq' = [dir |-> n, denied |-> denied, deny |-> deny]
              /\ tree' = made.tree
              /\ mkret' = Append(mkret, [dir |-> n, err |-> made.err, before |-> tree])
    /\ UNCHANGED << uploadVars, randVars, jsonVars, writeVars, downloadVars, slugVars >>

NextDir == CreateDirIfNotExist

SpecDir == InitDir /\ [][NextDir]_vars

\* C17: when a call of CreateDirIfNotExist returns nil, the path is a
\* directory and so are its parents, whatever was there before; a call on
\* a directory returns nil and changes nothing.
C17_EnsuresDirectory ==
    mkret # << >> =>
        LET last == mkret[Len(mkret)]
        IN  /\ last.err = "" => \A m \in 1..last.dir : tree[m] = "dir"
            /\ last.before[last.dir] = "dir" => last.err = "" /\ tree = last.before

(***************************************************************************)
(* The upload pipeline, continued.                                         *)
(***************************************************************************)
\* The path lies inside the directory: it is the directory, a separator
\* and at least one more element, none of them "..".
Inside(dir, path) ==
    /\ Len(path) > Len(dir) + 1
    /\ SubSeq(path, 1, Len(dir) + 1) = dir \o << Sep >>
    /\ LET rest == Split(SubSeq(path, Len(dir) + 2, Len(path)))
       IN  \A i \in 1..Len(rest) : rest[i] \notin { DotDot, << >>, << Dot >> }

\* C19: every file a call creates is inside the upload directory, whatever
\* name the file comes under and whether the call renames or not.
C19_DestinationInsideUploadDir ==
    \A p \in Procs :
        \A i \in DOMAIN events[p] :
            events[p][i].path # << >> => Inside(UploadDir, events[p][i].path)


\* C20: when UploadFiles returns its records, the file at
\* uploadDir/NewFileName of every record holds FileSize bytes, and they are
\* the content of the upload the record was made for, also when two files
\* of the request go to the same destination name.
C20_RecordsMatchDisk ==
    \A p \in Procs :
        Done(p) /\ call[p].op = "UploadFiles" /\ ret[p].kind = "list" =>
            \A i \in DOMAIN ret[p].recs :
                LET rec == ret[p].recs[i]
                IN  /\ DestPath(rec) \in DOMAIN fs
                    /\ Len(fs[DestPath(rec)]) = rec.FileSize
                    /\ fs[DestPath(rec)] = events[p][i].hdr.data

(***************************************************************************)
(* RandomString (tools.go:29-40), one character at a time.                 *)
(***************************************************************************)
\* The longest string asked for.
MaxRandLen == 2

InitRand ==
    /\ rn \in 0..MaxRandLen
    /\ rout = << >>
    /\ UploadIdle /\ JSONIdle /\ WriteIdle /\ DownloadIdle /\ SlugIdle /\ DirIdle

\* tools.go:32-37, one turn of the loop: a prime p of 64 bits is drawn and
\* the next character is r[p % 64].
RandomStringLoop ==
    /\ Len(rout) < rn
    /\ \E x \in PrimeResidues : rout' = Append(rout, randomStringSource[x + 1])
    /\ UNCHANGED << rn, uploadVars, jsonVars, writeVars, downloadVars, slugVars, dirVars >>

NextRand == RandomStringLoop

SpecRand == InitRand /\ [][NextRand]_vars

\* The characters of the alphabet.
Alphabet == { randomStringSource[i] : i \in 1..Len(randomStringSource) }

\* C21: RandomString(n) returns n characters, and at every position each
\* of the 64 characters of the alphabet can be the one that is drawn.
C21_EveryCharacterEveryPosition ==
    /\ Len(rout) <= rn
    /\ rout \in RandomString(Len(rout))
    /\ Len(rout) < rn =>
          \A c \in Alphabet : ENABLED (RandomStringLoop /\ rout' = Append(rout, c))

====
